---- MODULE Spec2Model ----
(***************************************************************************)
(* A model of the wafer mapper: the chip grid generator (geometry.js), the *)
(* application state with its JSON load (state.js) and the handlers that   *)
(* drive them (main.js, controls.js, interaction.js, export.js).           *)
(*                                                                         *)
(* Numbers.  Lengths (diameter, excluded radius, chip width and height)    *)
(* are integers counting twentieths of a millimetre: 101.6 mm is 2032.    *)
(* Chip coordinates x and y are kept doubled (fortieths of a millimetre):  *)
(* the grid origin -(cols*width)/2 is then an integer.  Arithmetic on      *)
(* them is exact.  The last sections before the claims compute the grid    *)
(* and the matching of load as JavaScript does, in IEEE 754 doubles, for   *)
(* small grids (SpecDouble): there the rounding decides the outcome.       *)
(*                                                                         *)
(* JavaScript values.  A parameter that a JSON document can set to a       *)
(* non-number is a record [t, v]: t = "num" with the number v, t = "str"   *)
(* for a non-numeric non-empty string, t = "undef" for an absent field.    *)
(***************************************************************************)
EXTENDS Integers, Sequences, FiniteSets, TLC

VARIABLES
    waferParams,    \* state.js: waferParams {diameter, flatAngle, excludedRadius}
    chipParams,     \* state.js: chipParams {width, height}
    currentLabel,   \* state.js: currentLabel
    currentColor,   \* state.js: currentColor
    chips,          \* state.js: chips, the current chip collection
    loadResult,     \* what WaferState.load returned, when the last handler
                    \* to run was handleImportJson: "ok" or "failed"
    gridFrom,       \* the parameters generateChipGrid was given for chips
    lastJson,       \* the document that load was given, when the last
                    \* handler to run was handleImportJson
    downloaded,     \* export.js: the document exportToJson last handed to
                    \* downloadFile (wafer_map.json)
    updateReturned, \* what the last call of WaferState.updateChip returned
                    \* to a caller that reads it: "true" or "false" (the
                    \* click handler drops the value)
    isDragging,     \* interaction.js: isDragging
    dragListeners,  \* interaction.js: handleDragMove and handleDragEnd are
                    \* registered on svgContainer for mousemove and mouseup
    buttonDown,     \* the user holds the mouse button
    pressedOnChip,  \* the button is held and was pressed on a drawn chip
    inputIgnored    \* the last handler to run returned at its isNaN test

vars == <<waferParams, chipParams, currentLabel, currentColor, chips,
          loadResult, gridFrom, lastJson, downloaded, updateReturned,
          isDragging, dragListeners, buttonDown, pressedOnChip, inputIgnored>>

\* the variables of the drag-to-paint interaction
dragVars == <<isDragging, dragListeners, buttonDown, pressedOnChip>>

-----------------------------------------------------------------------------
(* JavaScript values *)

Num(n) == [t |-> "num", v |-> n]
Str == [t |-> "str", v |-> 0]
Undef == [t |-> "undef", v |-> 0]
NaN == [t |-> "nan", v |-> 0]

IsNum(a) == a.t = "num"

\* isNaN of what parseFloat returns: a number or NaN
isNaN(a) == a.t = "nan"

\* if (value): undefined, 0 and NaN are falsy; a non-empty string is truthy
Truthy(a) == (a.t = "num" /\ a.v # 0) \/ a.t = "str"

Abs(n) == IF n < 0 THEN -n ELSE n

\* Math.ceil(a / b) for integers a and b, b # 0
CeilDiv(a, b) ==
    IF b > 0 THEN -((-a) \div b) ELSE -(a \div (-b))

-----------------------------------------------------------------------------
(* geometry.js *)

\* chip.number of a chip outside the wafer (null)
Null == 0

DefaultColor == "#ffffff"
DefaultLabel == ""

\* Math.cos and Math.sin of half the flat angle, as TrigDen-ths, for the
\* flat angles of the model
TrigDen == 10000

CosHalf(flatAngleDeg) ==
    CASE flatAngleDeg = 0 -> 10000
      [] flatAngleDeg = 30 -> 9659
      [] flatAngleDeg = 90 -> 7071
      [] flatAngleDeg = 180 -> 0

SinHalf(flatAngleDeg) ==
    CASE flatAngleDeg = 0 -> 0
      [] flatAngleDeg = 30 -> 2588
      [] flatAngleDeg = 90 -> 7071
      [] flatAngleDeg = 180 -> 10000

\* getFlatCutoff: waferDiameter is twice the radius the code passes; xCutoff
\* and yMax are doubled like the coordinates and scaled by TrigDen.  A flat
\* angle that is no number gives NaN for both
getFlatCutoff(waferDiameter, flatAngleDeg) ==
    IF IsNum(flatAngleDeg)
    THEN [xCutoff |-> Num(-waferDiameter * CosHalf(flatAngleDeg.v)),
          yMax |-> Num(waferDiameter * SinHalf(flatAngleDeg.v))]
    ELSE [xCutoff |-> NaN, yMax |-> NaN]

\* a variant that compares the squares, whatever the sign of the radius
DistanceExceedsSquared(cx, cy, usableDiameter) ==
    /\ IsNum(usableDiameter)
    /\ cx * cx + cy * cy > usableDiameter.v * usableDiameter.v

\* Math.sqrt(cx*cx + cy*cy) > usableRadius, on doubled values; a comparison
\* with NaN is false
DistanceExceeds(cx, cy, usableDiameter) ==
    /\ IsNum(usableDiameter)
    /\ \/ usableDiameter.v < 0
       \/ cx * cx + cy * cy > usableDiameter.v * usableDiameter.v

\* a variant that compares corner.y itself, not its absolute value
InFlatCutoffNoAbs(cx, cy, flatParams) ==
    /\ IsNum(flatParams.xCutoff)
    /\ cx * TrigDen < flatParams.xCutoff.v
    /\ cy * TrigDen < flatParams.yMax.v

\* a variant without the test of y
InFlatCutoffXOnly(cx, cy, flatParams) ==
    /\ IsNum(flatParams.xCutoff)
    /\ cx * TrigDen < flatParams.xCutoff.v

\* corner.x < flatParams.xCutoff && Math.abs(corner.y) < flatParams.yMax
InFlatCutoff(cx, cy, flatParams) ==
    /\ IsNum(flatParams.xCutoff)
    /\ cx * TrigDen < flatParams.xCutoff.v
    /\ Abs(cy) * TrigDen < flatParams.yMax.v

\* the corners array of isChipInsideWafer (x, y doubled; sizes not)
Corners(x, y, chipWidth, chipHeight) ==
    << [x |-> x, y |-> y],
       [x |-> x + 2 * chipWidth, y |-> y],
       [x |-> x, y |-> y + 2 * chipHeight],
       [x |-> x + 2 * chipWidth, y |-> y + 2 * chipHeight] >>

\* the for loop of isChipInsideWafer, from corner i on
RECURSIVE CornerLoop(_, _, _, _)
CornerLoop(corners, i, usableDiameter, flatParams) ==
    IF i > Len(corners) THEN TRUE
    ELSE IF DistanceExceeds(corners[i].x, corners[i].y, usableDiameter) THEN FALSE
    ELSE IF InFlatCutoff(corners[i].x, corners[i].y, flatParams) THEN FALSE
    ELSE CornerLoop(corners, i + 1, usableDiameter, flatParams)

\* a variant that tests the bottom-left and the top-right corner only
isChipInsideWaferDiagonal(x, y, chipWidth, chipHeight, usableDiameter, flatParams) ==
    CornerLoop(<<Corners(x, y, chipWidth, chipHeight)[1],
                 Corners(x, y, chipWidth, chipHeight)[4]>>,
               1, usableDiameter, flatParams)

isChipInsideWafer(x, y, chipWidth, chipHeight, usableDiameter, flatParams) ==
    CornerLoop(Corners(x, y, chipWidth, chipHeight), 1, usableDiameter, flatParams)

\* a variant with a margin of one column instead of two
numColsOneMargin(diameter, chipWidth) == CeilDiv(diameter, chipWidth) + 1

numCols(diameter, chipWidth) == CeilDiv(diameter, chipWidth) + 2

\* a variant with a margin of one row instead of two
numRowsOneMargin(diameter, chipHeight) == CeilDiv(diameter, chipHeight) + 1

numRows(diameter, chipHeight) == CeilDiv(diameter, chipHeight) + 2

\* xStart and yStart, doubled
xStart(diameter, chipWidth) == -(numCols(diameter, chipWidth) * chipWidth)
yStart(diameter, chipHeight) == -(numRows(diameter, chipHeight) * chipHeight)

\* usableRadius = waferRadius - waferParams.excludedRadius, doubled
UsableDiameter(wp) ==
    IF IsNum(wp.excludedRadius)
    THEN Num(wp.diameter.v - 2 * wp.excludedRadius.v)
    ELSE NaN

\* a variant that gives cell k the color and the label of the chip with id k
\* of the collection it replaces
CellChipKeepsEdits(wp, chipWidth, chipHeight, cols, k) ==
    LET row == k \div cols
        col == k % cols
        x == xStart(wp.diameter.v, chipWidth) + 2 * col * chipWidth
        y == yStart(wp.diameter.v, chipHeight) + 2 * row * chipHeight
        old == {j \in 1..Len(chips) : chips[j].id = k}
    IN  [id |-> k, x |-> x, y |-> y,
         width |-> chipWidth, height |-> chipHeight,
         inside |-> isChipInsideWafer(x, y, chipWidth, chipHeight,
                        UsableDiameter(wp),
                        getFlatCutoff(wp.diameter.v, wp.flatAngle)),
         color |-> IF old = {} THEN DefaultColor
                   ELSE chips[CHOOSE j \in old : TRUE].color,
         label |-> IF old = {} THEN DefaultLabel
                   ELSE chips[CHOOSE j \in old : TRUE].label,
         number |-> Null]

\* the chip of cell k (row-major, from 0) as the first pass builds it, its
\* number apart
CellChip(wp, chipWidth, chipHeight, cols, k) ==
    LET row == k \div cols
        col == k % cols
        x == xStart(wp.diameter.v, chipWidth) + 2 * col * chipWidth
        y == yStart(wp.diameter.v, chipHeight) + 2 * row * chipHeight
    IN  [id |-> k, x |-> x, y |-> y,
         width |-> chipWidth, height |-> chipHeight,
         inside |-> isChipInsideWafer(x, y, chipWidth, chipHeight,
                        UsableDiameter(wp),
                        getFlatCutoff(wp.diameter.v, wp.flatAngle)),
         color |-> DefaultColor, label |-> DefaultLabel, number |-> Null]

\* first pass: number: inside ? chipNumber++ : null.  The counter starts at
\* 1 and has been incremented once for every inside chip pushed before
FirstPass(cells) ==
    [k \in 1..Len(cells) |->
        IF cells[k].inside
        THEN [cells[k] EXCEPT
                 !.number = 1 + Cardinality({j \in 1..(k - 1) : cells[j].inside})]
        ELSE cells[k]]

\* a variant that compares x first
BeforeXThenY(a, b) == a.x < b.x \/ (a.x = b.x /\ a.y < b.y)

\* a variant that sorts from the top row down: descending y
BeforeTopDown(a, b) == a.y > b.y \/ (a.y = b.y /\ a.x < b.x)

\* the comparator (a, b) => a.y - b.y || a.x - b.x is negative
Before(a, b) == a.y < b.y \/ (a.y = b.y /\ a.x < b.x)

\* Array.prototype.sort is stable: b ends up in front of a when the
\* comparator puts it there, or ties and b came first in the filtered array
SortsBefore(b, a) ==
    Before(b, a) \/ (~Before(a, b) /\ b.id < a.id)

\* second pass: the index + 1 that insideChips.forEach hands to chip c of
\* tempChips.filter(chip => chip.inside).sort(...)
SortedNumber(tempChips, c) ==
    1 + Cardinality({j \in 1..Len(tempChips) :
                        tempChips[j].inside /\ SortsBefore(tempChips[j], c)})

\* chip.number = index + 1 on the objects shared with tempChips
SecondPass(tempChips) ==
    [k \in 1..Len(tempChips) |->
        IF tempChips[k].inside
        THEN [tempChips[k] EXCEPT !.number = SortedNumber(tempChips, tempChips[k])]
        ELSE tempChips[k]]

\* a variant whose chipId counter outlives the call: the ids go on from the
\* size of the collection generated before
generateChipGridContinuesIds(wp, chipWidth, chipHeight) ==
    IF ~IsNum(wp.diameter) \/ ~IsNum(chipWidth) \/ ~IsNum(chipHeight) THEN << >>
    ELSE LET cols == numCols(wp.diameter.v, chipWidth.v)
             rows == numRows(wp.diameter.v, chipHeight.v)
         IN  IF cols <= 0 \/ rows <= 0 THEN << >>
             ELSE SecondPass(FirstPass(
                      [k \in 1..(rows * cols) |->
                          CellChip(wp, chipWidth.v, chipHeight.v, cols,
                                   k - 1 + Len(chips))]))

\* generateChipGrid.  A non-numeric diameter, width or height makes numCols
\* or numRows NaN and neither loop runs; a count that is not positive does
\* the same.  Width and height are never 0 here: the state stores no 0.
generateChipGrid(wp, chipWidth, chipHeight) ==
    IF ~IsNum(wp.diameter) \/ ~IsNum(chipWidth) \/ ~IsNum(chipHeight) THEN << >>
    ELSE LET cols == numCols(wp.diameter.v, chipWidth.v)
             rows == numRows(wp.diameter.v, chipHeight.v)
         IN  IF cols <= 0 \/ rows <= 0 THEN << >>
             ELSE SecondPass(FirstPass(
                      [k \in 1..(rows * cols) |->
                          CellChip(wp, chipWidth.v, chipHeight.v, cols, k - 1)]))

-----------------------------------------------------------------------------
(* state.js *)

DefaultDiameter == 2032
DefaultFlatAngle == 30
DefaultExcludedRadius == 0
DefaultWidth == 200
DefaultHeight == 240

\* updateWaferParams: diameter is stored when truthy, the others when not
\* undefined (name and exportTimestamp play no part in the grid)
updateWaferParams(wp, params) ==
    [diameter |-> IF Truthy(params.diameter) THEN params.diameter ELSE wp.diameter,
     flatAngle |-> IF params.flatAngle # Undef THEN params.flatAngle ELSE wp.flatAngle,
     excludedRadius |-> IF params.excludedRadius # Undef
                        THEN params.excludedRadius ELSE wp.excludedRadius]

\* updateChipParams: width and height are stored when truthy
updateChipParams(cp, params) ==
    [width |-> IF Truthy(params.width) THEN params.width ELSE cp.width,
     height |-> IF Truthy(params.height) THEN params.height ELSE cp.height]

\* a variant that looks the id up among the numbers of the chips
ChipIndexOfNumber(list, id) ==
    LET hits == {j \in 1..Len(list) : list[j].number = id}
    IN  IF hits = {} THEN 0 ELSE CHOOSE j \in hits : \A i \in hits : j <= i

\* chips.findIndex(c => c.id === id), from 1; 0 for -1
ChipIndex(list, id) ==
    LET hits == {j \in 1..Len(list) : list[j].id = id}
    IN  IF hits = {} THEN 0 ELSE CHOOSE j \in hits : \A i \in hits : j <= i

\* {...chip, ...updates}: the fields of both, those of updates winning
Spread(chip, updates) ==
    [f \in DOMAIN chip \cup DOMAIN updates |->
        IF f \in DOMAIN updates THEN updates[f] ELSE chip[f]]

\* a variant that resets the color and the label updates does not list
updateChipResetsOthers(list, id, updates) ==
    IF ChipIndex(list, id) = 0 THEN list
    ELSE [list EXCEPT ![ChipIndex(list, id)] =
             Spread(Spread(@, [color |-> DefaultColor, label |-> DefaultLabel]),
                    updates)]

\* updateChip: chips[chipIndex] = {...chips[chipIndex], ...updates}; a list
\* without that id is left alone
updateChip(list, id, updates) ==
    IF ChipIndex(list, id) = 0 THEN list
    ELSE [list EXCEPT ![ChipIndex(list, id)] = Spread(@, updates)]

\* what updateChip returns: false when chipIndex === -1
updateChipReturns(list, id) == ChipIndex(list, id) # 0

\* the 0.1 mm of the match, in fortieths of a millimetre
Tolerance == 4

\* the predicate of importedChips.find
Matches(importedChip, newChip) ==
    /\ Abs(importedChip.x - newChip.x) < Tolerance
    /\ Abs(importedChip.y - newChip.y) < Tolerance

\* a variant that takes the last match of the list
MatchIndexLast(items, newChip) ==
    LET hits == {i \in 1..Len(items) :
                    ~items[i].isNull /\ Matches(items[i], newChip)}
    IN  IF hits = {} THEN 0 ELSE CHOOSE i \in hits : \A j \in hits : i >= j

\* the index find stops at with a match, 0 for none
MatchIndex(items, newChip) ==
    LET hits == {i \in 1..Len(items) :
                    ~items[i].isNull /\ Matches(items[i], newChip)}
    IN  IF hits = {} THEN 0 ELSE CHOOSE i \in hits : \A j \in hits : i <= j

\* find reads importedChip.x of a null element (TypeError) when it reaches
\* one before any match; importedChips.find is no function when chips is
\* not an array
FindThrows(importedChips, newChip) ==
    \/ importedChips.kind = "notArray"
    \/ /\ importedChips.kind = "array"
       /\ \E i \in 1..Len(importedChips.items) :
             /\ importedChips.items[i].isNull
             /\ MatchIndex(importedChips.items, newChip) \in {0} \cup
                    {m \in 1..Len(importedChips.items) : m > i}

\* a variant that matches the outside chips as well
ReconcileOutsideToo(importedChips, newChip) ==
    IF importedChips.kind # "array" THEN newChip
    ELSE LET m == MatchIndex(importedChips.items, newChip)
         IN  IF m = 0 THEN newChip
             ELSE [newChip EXCEPT
                     !.color = IF importedChips.items[m].color # ""
                               THEN importedChips.items[m].color ELSE @,
                     !.label = IF importedChips.items[m].label # ""
                               THEN importedChips.items[m].label ELSE @]

\* a variant that takes the id of the matching chip too
ReconcileTakesId(importedChips, newChip) ==
    IF ~newChip.inside \/ importedChips.kind # "array" THEN newChip
    ELSE LET m == MatchIndex(importedChips.items, newChip)
         IN  IF m = 0 THEN newChip
             ELSE [newChip EXCEPT
                     !.id = importedChips.items[m].id,
                     !.color = IF importedChips.items[m].color # ""
                               THEN importedChips.items[m].color ELSE @,
                     !.label = IF importedChips.items[m].label # ""
                               THEN importedChips.items[m].label ELSE @]

\* the body of newChips.forEach for one chip
Reconcile(importedChips, newChip) ==
    IF ~newChip.inside \/ importedChips.kind # "array" THEN newChip
    ELSE LET m == MatchIndex(importedChips.items, newChip)
         IN  IF m = 0 THEN newChip
             ELSE LET matchingChip == importedChips.items[m]
                  IN  [newChip EXCEPT
                         !.color = IF matchingChip.color # ""
                                   THEN matchingChip.color ELSE @,
                         !.label = IF matchingChip.label # ""
                                   THEN matchingChip.label ELSE @]

\* load: updateWaferParams and updateChipParams when the document has a
\* truthy waferParams, chipParams; the parameters it then generates with
LoadParams(wp, cp, doc) ==
    [wafer |-> IF doc.waferParams.present
               THEN updateWaferParams(wp, doc.waferParams) ELSE wp,
     chip |-> IF doc.chipParams.present
              THEN updateChipParams(cp, doc.chipParams) ELSE cp]

\* a variant that stores the new chips before it reconciles them
loadStoresFirst(wp, cp, list, doc) ==
    IF doc.syntax = "error" \/ doc.root = "null"
    THEN [ok |-> FALSE, waferParams |-> wp, chipParams |-> cp, chips |-> list]
    ELSE LET wp1 == LoadParams(wp, cp, doc).wafer
             cp1 == LoadParams(wp, cp, doc).chip
             importedChips == IF doc.chips.kind = "absent"
                              THEN [kind |-> "array", items |-> << >>]
                              ELSE doc.chips
             newChips == generateChipGrid(wp1, cp1.width, cp1.height)
         IN  [ok |-> ~\E k \in 1..Len(newChips) :
                        newChips[k].inside /\ FindThrows(importedChips, newChips[k]),
              waferParams |-> wp1, chipParams |-> cp1,
              chips |-> [k \in 1..Len(newChips) |->
                            Reconcile(importedChips, newChips[k])]]

\* WaferState.load on the state (wp, cp, list): what it returns and the
\* state it leaves.  JSON.parse throws on text that is no JSON; reading
\* data.waferParams throws when the document is null
load(wp, cp, list, doc) ==
    IF doc.syntax = "error" \/ doc.root = "null"
    THEN [ok |-> FALSE, waferParams |-> wp, chipParams |-> cp, chips |-> list]
    ELSE LET wp1 == LoadParams(wp, cp, doc).wafer
             cp1 == LoadParams(wp, cp, doc).chip
             importedChips == IF doc.chips.kind = "absent"
                              THEN [kind |-> "array", items |-> << >>]
                              ELSE doc.chips
             newChips == generateChipGrid(wp1, cp1.width, cp1.height)
         IN  IF \E k \in 1..Len(newChips) :
                    newChips[k].inside /\ FindThrows(importedChips, newChips[k])
             THEN [ok |-> FALSE, waferParams |-> wp1, chipParams |-> cp1,
                   chips |-> list]
             ELSE [ok |-> TRUE, waferParams |-> wp1, chipParams |-> cp1,
                   chips |-> [k \in 1..Len(newChips) |->
                                 Reconcile(importedChips, newChips[k])]]

-----------------------------------------------------------------------------
(* The documents a user can import (handleImportJson) *)

NoParams ==
    [present |-> FALSE, diameter |-> Undef, flatAngle |-> Undef,
     excludedRadius |-> Undef, width |-> Undef, height |-> Undef]

WaferDoc(d, a, e) ==
    [present |-> TRUE, diameter |-> d, flatAngle |-> a, excludedRadius |-> e]

ChipDoc(w, h) == [present |-> TRUE, width |-> w, height |-> h]

\* a chip record of a document; load reads x, y, color and label of it
SavedRecord(id, x, y, inside, number, color, label, fileName) ==
    [isNull |-> FALSE, id |-> id, x |-> x, y |-> y, inside |-> inside,
     number |-> number, color |-> color, label |-> label, fileName |-> fileName]

\* a saved chip whose id, inside and number are those of no generated chip
SavedChip(x, y, color, label) ==
    SavedRecord(900, x, y, FALSE, 77, color, label, "")

NullChip == [SavedChip(0, 0, "", "") EXCEPT !.isNull = TRUE]

NoChips == [kind |-> "absent", items |-> << >>]
NotAnArray == [kind |-> "notArray", items |-> << >>]
ChipArray(items) == [kind |-> "array", items |-> items]

Doc(w, c, s) ==
    [syntax |-> "ok", root |-> "object", waferParams |-> w, chipParams |-> c,
     chips |-> s]

\* no document: nothing imported by the last handler, nothing downloaded
NoDocument == [Doc(NoParams, NoParams, NoChips) EXCEPT !.syntax = "none"]

\* text that is no JSON, and the JSON text null
SyntaxErrorDoc == [Doc(NoParams, NoParams, NoChips) EXCEPT !.syntax = "error"]
NullDoc == [Doc(NoParams, NoParams, NoChips) EXCEPT !.root = "null"]

\* a small wafer whose usable radius exceeds its radius
SmallWafer == WaferDoc(Num(80), Num(30), Num(-40))
SmallChip == ChipDoc(Num(20), Num(80))

\* saved chips at the first inside chip of that grid and of the default
\* grid, and one far from both
SmallSaved == SavedChip(-120, -80, "#ff0000", "A1")
DefaultSaved == SavedChip(-1000, -1680, "#00ff00", "B2")
StraySaved == SavedChip(10000, 10000, "#0000ff", "Z9")

\* saved chips around the first inside chip of the small grid, in the order
\* of ReconcileDoc: one exactly 0.1 mm to its right, one 0.075 mm off on both
\* axes that carries a file name, and one at its very position
EdgeSaved == SavedChip(-116, -80, "#0000ff", "E1")
NearSaved == SavedRecord(901, -117, -83, FALSE, 78, "#00ff00", "N1", "lot7.csv")
ExactSaved == SavedChip(-120, -80, "#ff0000", "A1")
\* one at an outside chip of that grid, one with a label and no color at
\* its second inside chip
OutsideSaved == SavedChip(-120, -240, "#ffff00", "O1")
LabelOnlySaved == SavedChip(-80, -80, "", "L1")

ReconcileDoc ==
    Doc(SmallWafer, SmallChip,
        ChipArray(<<EdgeSaved, NearSaved, ExactSaved, OutsideSaved,
                    LabelOnlySaved, StraySaved>>))

Docs ==
    { SyntaxErrorDoc, NullDoc,
      Doc(NoParams, NoParams, NoChips),
      Doc(NoParams, NoParams, NotAnArray),
      Doc(NoParams, NoParams, ChipArray(<<SmallSaved, DefaultSaved>>)),
      Doc(SmallWafer, SmallChip, NoChips),
      Doc(SmallWafer, SmallChip, ChipArray(<<SmallSaved, StraySaved>>)),
      Doc(SmallWafer, SmallChip, ChipArray(<<SmallSaved, NullChip>>)),
      Doc(SmallWafer, SmallChip, NotAnArray),
      ReconcileDoc,
      Doc(WaferDoc(Str, Undef, Undef), NoParams, NoChips),
      Doc(NoParams, ChipDoc(Str, Undef), NoChips),
      Doc(WaferDoc(Num(-80), Undef, Undef), ChipDoc(Num(-20), Num(-20)), NoChips),
      Doc(WaferDoc(Num(0), Num(0), Num(0)), ChipDoc(Num(0), Num(0)), NoChips) }

-----------------------------------------------------------------------------
(* state.js serialize, export.js exportToJson *)

\* JSON.stringify of one chip: its fields, number: null included
JsonChip(chip) == [isNull |-> FALSE] @@ chip

\* serialize: JSON.stringify({waferParams, chipParams, chips})
serialize(wp, cp, list) ==
    Doc(WaferDoc(wp.diameter, wp.flatAngle, wp.excludedRadius),
        ChipDoc(cp.width, cp.height),
        ChipArray([k \in 1..Len(list) |-> JsonChip(list[k])]))

\* cleanChip: the keys whose value is not null.  Of the fields of a chip
\* only number can be null
CleanChip(item) ==
    [key \in {f \in DOMAIN item : ~(f = "number" /\ item[f] = Null)} |-> item[key]]

\* a variant that keeps the null values
exportToJsonKeepsNulls(wp, cp, list) == serialize(wp, cp, list)

\* exportToJson: the document handed to downloadFile
exportToJson(wp, cp, list) ==
    [serialize(wp, cp, list) EXCEPT
        !.chips = ChipArray([k \in 1..Len(list) |->
                                CleanChip(serialize(wp, cp, list).chips.items[k])])]

-----------------------------------------------------------------------------
(* What the user can enter in the controls (parseFloat of the inputs) *)

UiDiameters == {DefaultDiameter, 80, -80, 0}
UiFlatAngles == {0, DefaultFlatAngle}
UiExcludedRadii == {DefaultExcludedRadius, -40}
UiWidths == {DefaultWidth, 20, -20, 0}
UiHeights == {DefaultHeight, 80}
UiLabelParams == {[color |-> "#ff0000", label |-> "A1"]}

\* parseFloat of an input: one of the numbers, or NaN for an input that is
\* empty or no number
Parsed(numbers) == {Num(n) : n \in numbers} \cup {NaN}

\* the model generates no grid of more than MaxCells cells, and the user
\* clicks among the first MaxClickNumber chips
MaxCells == 150
MaxClickNumber == 2

GridCells(wp, cp) ==
    IF ~IsNum(wp.diameter) \/ ~IsNum(cp.width) \/ ~IsNum(cp.height) THEN 0
    ELSE LET cols == numCols(wp.diameter.v, cp.width.v)
             rows == numRows(wp.diameter.v, cp.height.v)
         IN  IF cols <= 0 \/ rows <= 0 THEN 0 ELSE rows * cols

-----------------------------------------------------------------------------
(* main.js, controls.js, interaction.js: the handlers *)

Grid(wp, cp) == [installed |-> TRUE, wafer |-> wp, chip |-> cp]

Init ==
    /\ waferParams = [diameter |-> Num(DefaultDiameter),
                      flatAngle |-> Num(DefaultFlatAngle),
                      excludedRadius |-> Num(DefaultExcludedRadius)]
    /\ chipParams = [width |-> Num(DefaultWidth), height |-> Num(DefaultHeight)]
    /\ currentLabel = ""
    /\ currentColor = DefaultColor
    /\ chips = << >>
    /\ loadResult = "none"
    /\ gridFrom = [Grid(waferParams, chipParams) EXCEPT !.installed = FALSE]
    /\ lastJson = NoDocument
    /\ downloaded = NoDocument
    /\ updateReturned = "none"
    /\ isDragging = FALSE
    /\ dragListeners = FALSE
    /\ buttonDown = FALSE
    /\ pressedOnChip = FALSE
    /\ inputIgnored = FALSE

\* a variant that installs the inside chips only
generateWaferMapInsideOnly(wp, cp) ==
    /\ GridCells(wp, cp) <= MaxCells
    /\ chips' = SelectSeq(generateChipGrid(wp, cp.width, cp.height),
                          LAMBDA c : c.inside)
    /\ gridFrom' = Grid(wp, cp)

\* generateWaferMap: generateChipGrid on the state's parameters, setChips
generateWaferMap(wp, cp) ==
    /\ GridCells(wp, cp) <= MaxCells
    /\ chips' = generateChipGrid(wp, cp.width, cp.height)
    /\ gridFrom' = Grid(wp, cp)

\* WaferMapping.init on DOMContentLoaded; it binds the handlers below
WaferMappingInit ==
    /\ ~gridFrom.installed
    /\ generateWaferMap(waferParams, chipParams)
    /\ loadResult' = "none"
    /\ lastJson' = NoDocument
    /\ inputIgnored' = FALSE
    /\ UNCHANGED <<waferParams, chipParams, currentLabel, currentColor, downloaded,
                   updateReturned>>
    /\ UNCHANGED dragVars

\* a variant that tests the diameter alone
HandleWaferParamsChangeTestsDiameter(diameter, flatAngle, excludedRadius) ==
    /\ gridFrom.installed
    /\ loadResult' = "none"
    /\ lastJson' = NoDocument
    /\ IF isNaN(diameter)
       THEN /\ inputIgnored' = TRUE
            /\ UNCHANGED <<waferParams, chips, gridFrom>>
       ELSE /\ inputIgnored' = FALSE
            /\ waferParams' = updateWaferParams(waferParams,
                                  WaferDoc(diameter, flatAngle, excludedRadius))
            /\ generateWaferMap(waferParams', chipParams)
    /\ UNCHANGED <<chipParams, currentLabel, currentColor, downloaded,
                   updateReturned>>
    /\ UNCHANGED dragVars

\* handleWaferParamsChange: diameter, flatAngle and excludedRadius are what
\* parseFloat made of the three inputs; it returns when one of them is NaN
HandleWaferParamsChange(diameter, flatAngle, excludedRadius) ==
    /\ gridFrom.installed
    /\ loadResult' = "none"
    /\ lastJson' = NoDocument
    /\ IF isNaN(diameter) \/ isNaN(flatAngle) \/ isNaN(excludedRadius)
       THEN /\ inputIgnored' = TRUE
            /\ UNCHANGED <<waferParams, chips, gridFrom>>
       ELSE /\ inputIgnored' = FALSE
            /\ waferParams' = updateWaferParams(waferParams,
                                  WaferDoc(diameter, flatAngle, excludedRadius))
            /\ generateWaferMap(waferParams', chipParams)
    /\ UNCHANGED <<chipParams, currentLabel, currentColor, downloaded,
                   updateReturned>>
    /\ UNCHANGED dragVars

\* handleChipParamsChange: width and height are what parseFloat made of the
\* two inputs; it returns when one of them is NaN
HandleChipParamsChange(width, height) ==
    /\ gridFrom.installed
    /\ loadResult' = "none"
    /\ lastJson' = NoDocument
    /\ IF isNaN(width) \/ isNaN(height)
       THEN /\ inputIgnored' = TRUE
            /\ UNCHANGED <<chipParams, chips, gridFrom>>
       ELSE /\ inputIgnored' = FALSE
            /\ chipParams' = updateChipParams(chipParams, ChipDoc(width, height))
            /\ generateWaferMap(waferParams, chipParams')
    /\ UNCHANGED <<waferParams, currentLabel, currentColor, downloaded,
                   updateReturned>>
    /\ UNCHANGED dragVars

\* handleLabelParamsChange: updateLabelParams stores a truthy color
HandleLabelParamsChange(params) ==
    /\ gridFrom.installed
    /\ currentLabel' = params.label
    /\ currentColor' = IF params.color # "" THEN params.color ELSE currentColor
    /\ loadResult' = "none"
    /\ lastJson' = NoDocument
    /\ inputIgnored' = FALSE
    /\ UNCHANGED <<waferParams, chipParams, chips, gridFrom, downloaded,
                   updateReturned>>
    /\ UNCHANGED dragVars

\* handleChipClick on a drawn chip (renderWafer draws the inside chips)
HandleChipClick(k) ==
    /\ gridFrom.installed
    /\ k \in 1..Len(chips)
    /\ chips[k].inside
    /\ chips[k].number <= MaxClickNumber
    /\ chips' = updateChip(chips, chips[k].id,
                           [color |-> currentColor, label |-> currentLabel])
    /\ loadResult' = "none"
    /\ lastJson' = NoDocument
    /\ inputIgnored' = FALSE
    /\ UNCHANGED <<waferParams, chipParams, currentLabel, currentColor, gridFrom, downloaded,
                   updateReturned>>
    /\ UNCHANGED dragVars

\* handleImportJson, reader.onload: WaferState.load(json)
HandleImportJson(doc) ==
    /\ gridFrom.installed
    /\ \/ doc.syntax = "error"
       \/ doc.root = "null"
       \/ GridCells(LoadParams(waferParams, chipParams, doc).wafer,
                    LoadParams(waferParams, chipParams, doc).chip) <= MaxCells
    /\ \E r \in {load(waferParams, chipParams, chips, doc)} :
           /\ waferParams' = r.waferParams
           /\ chipParams' = r.chipParams
           /\ chips' = r.chips
           /\ loadResult' = IF r.ok THEN "ok" ELSE "failed"
           /\ gridFrom' = IF r.ok THEN Grid(r.waferParams, r.chipParams)
                          ELSE gridFrom
    /\ lastJson' = doc
    /\ inputIgnored' = FALSE
    /\ UNCHANGED <<currentLabel, currentColor, downloaded, updateReturned>>
    /\ UNCHANGED dragVars

\* handleExportJson: exportToJson stamps exportTimestamp with
\* updateWaferParams, then downloads the cleaned document
HandleExportJson ==
    /\ gridFrom.installed
    /\ waferParams' = updateWaferParams(waferParams, WaferDoc(Undef, Undef, Undef))
    /\ downloaded' = exportToJson(waferParams', chipParams, chips)
    /\ loadResult' = "none"
    /\ lastJson' = NoDocument
    /\ inputIgnored' = FALSE
    /\ UNCHANGED <<chipParams, currentLabel, currentColor, chips, gridFrom,
                   updateReturned>>
    /\ UNCHANGED dragVars

Next ==
    \/ WaferMappingInit
    \/ \E d \in Parsed(UiDiameters), a \in Parsed(UiFlatAngles),
          e \in Parsed(UiExcludedRadii) :
          HandleWaferParamsChange(d, a, e)
    \/ \E w \in Parsed(UiWidths), h \in Parsed(UiHeights) :
          HandleChipParamsChange(w, h)
    \/ \E p \in UiLabelParams : HandleLabelParamsChange(p)
    \/ \E k \in 1..Len(chips) : HandleChipClick(k)
    \/ \E doc \in Docs : HandleImportJson(doc)

Spec == Init /\ [][Next]_vars

-----------------------------------------------------------------------------
(* generateChipGrid on its own: the parameters are drawn from the sets     *)
(* below and generateWaferMap applies it once.                             *)

GridDiameters == {DefaultDiameter, 200, 120, 80, -80}
GridFlatAngles == {0, DefaultFlatAngle, 90, 180}
GridExcludedRadii == {-120, -40, DefaultExcludedRadius, 20, 40, 60, 1016}
GridWidths == {DefaultWidth, 60, 40, 20, -20}
GridHeights == {DefaultHeight, 80, 20, -20}

InitGrid ==
    /\ \E d \in GridDiameters, a \in GridFlatAngles, e \in GridExcludedRadii :
          waferParams = [diameter |-> Num(d), flatAngle |-> Num(a),
                         excludedRadius |-> Num(e)]
    /\ \E w \in GridWidths, h \in GridHeights :
          chipParams = [width |-> Num(w), height |-> Num(h)]
    /\ GridCells(waferParams, chipParams) <= MaxCells
    /\ currentLabel = ""
    /\ currentColor = DefaultColor
    /\ chips = << >>
    /\ loadResult = "none"
    /\ gridFrom = [Grid(waferParams, chipParams) EXCEPT !.installed = FALSE]
    /\ lastJson = NoDocument
    /\ downloaded = NoDocument
    /\ updateReturned = "none"
    /\ isDragging = FALSE
    /\ dragListeners = FALSE
    /\ buttonDown = FALSE
    /\ pressedOnChip = FALSE
    /\ inputIgnored = FALSE

SpecGrid == InitGrid /\ [][WaferMappingInit]_vars

-----------------------------------------------------------------------------
(* Export and import of the exported file.  The parameters are drawn from  *)
(* RoundTripParams: the defaults, a small wafer with a negative excluded   *)
(* radius, a 0.3 mm wafer with chips of 0.05 x 0.1 mm, and negative sizes. *)

RoundTripParams ==
    { [wafer |-> [diameter |-> Num(DefaultDiameter),
                  flatAngle |-> Num(DefaultFlatAngle),
                  excludedRadius |-> Num(DefaultExcludedRadius)],
       chip |-> [width |-> Num(DefaultWidth), height |-> Num(DefaultHeight)]],
      [wafer |-> [diameter |-> Num(80), flatAngle |-> Num(30),
                  excludedRadius |-> Num(-40)],
       chip |-> [width |-> Num(20), height |-> Num(80)]],
      [wafer |-> [diameter |-> Num(6), flatAngle |-> Num(30),
                  excludedRadius |-> Num(0)],
       chip |-> [width |-> Num(1), height |-> Num(2)]],
      [wafer |-> [diameter |-> Num(-80), flatAngle |-> Num(30),
                  excludedRadius |-> Num(0)],
       chip |-> [width |-> Num(-20), height |-> Num(-20)]] }

InitRoundTrip ==
    /\ \E p \in RoundTripParams : waferParams = p.wafer /\ chipParams = p.chip
    /\ currentLabel = ""
    /\ currentColor = DefaultColor
    /\ chips = << >>
    /\ loadResult = "none"
    /\ gridFrom = [Grid(waferParams, chipParams) EXCEPT !.installed = FALSE]
    /\ lastJson = NoDocument
    /\ downloaded = NoDocument
    /\ updateReturned = "none"
    /\ isDragging = FALSE
    /\ dragListeners = FALSE
    /\ buttonDown = FALSE
    /\ pressedOnChip = FALSE
    /\ inputIgnored = FALSE

\* the user picks the file exportToJson downloaded
ImportDownloaded == downloaded # NoDocument /\ HandleImportJson(downloaded)

NextRoundTrip ==
    \/ WaferMappingInit
    \/ \E p \in UiLabelParams : HandleLabelParamsChange(p)
    \/ \E k \in 1..Len(chips) : HandleChipClick(k)
    \/ HandleExportJson
    \/ ImportDownloaded

SpecRoundTrip == InitRoundTrip /\ [][NextRoundTrip]_vars

-----------------------------------------------------------------------------
(* WaferState.updateChip on its own, on the default grid: ids of chips of  *)
(* the grid (0, 30, 31), ids of none (-1, 143); updates of one field and   *)
(* of two.                                                                 *)

UpdateIds == {-1, 0, 30, 31, 143}
UpdateSets ==
    { [color |-> "#ff0000"], [label |-> "A1"],
      [color |-> "#00ff00", label |-> "B2"] }

UpdateChipCall(id, updates) ==
    /\ gridFrom.installed
    /\ chips' = updateChip(chips, id, updates)
    /\ updateReturned' = IF updateChipReturns(chips, id) THEN "true" ELSE "false"
    /\ loadResult' = "none"
    /\ lastJson' = NoDocument
    /\ inputIgnored' = FALSE
    /\ UNCHANGED <<waferParams, chipParams, currentLabel, currentColor, gridFrom,
                   downloaded>>
    /\ UNCHANGED dragVars

NextUpdate ==
    \/ WaferMappingInit
    \/ \E id \in UpdateIds, updates \in UpdateSets : UpdateChipCall(id, updates)

SpecUpdate == Init /\ [][NextUpdate]_vars

-----------------------------------------------------------------------------
(* interaction.js: drag to paint.  The mouse events of a user on the       *)
(* default grid: the button goes down on a chip, on the background of the  *)
(* SVG container or elsewhere on the page, the pointer moves over the      *)
(* container, the button is released over the container or elsewhere.  An  *)
(* event reaches the listeners of svgContainer only when its target is     *)
(* inside the container.                                                   *)

DragLabelParams ==
    {[color |-> "#ff0000", label |-> "A1"], [color |-> "#00ff00", label |-> "B2"],
     [color |-> "#ff0000", label |-> ""]}

\* what the pointer can be on inside the container: the index of a drawn
\* chip, or 0 for the background (findChipGroupFromEvent returns null)
DragTargets ==
    {0} \cup {k \in 1..Len(chips) :
                chips[k].inside /\ chips[k].number <= MaxClickNumber}

\* handleDragStart, the mousedown listener of the container
HandleDragStart(target) ==
    /\ gridFrom.installed
    /\ ~buttonDown
    /\ buttonDown' = TRUE
    /\ pressedOnChip' = (target # 0)
    /\ IF target # 0
       THEN isDragging' = TRUE /\ dragListeners' = TRUE
       ELSE UNCHANGED <<isDragging, dragListeners>>
    /\ loadResult' = "none"
    /\ lastJson' = NoDocument
    /\ inputIgnored' = FALSE
    /\ UNCHANGED <<waferParams, chipParams, currentLabel, currentColor, chips,
                   gridFrom, downloaded, updateReturned>>

\* a mousedown outside the container: no listener of the container runs
MouseDownElsewhere ==
    /\ gridFrom.installed
    /\ ~buttonDown
    /\ buttonDown' = TRUE
    /\ pressedOnChip' = FALSE
    /\ loadResult' = "none"
    /\ lastJson' = NoDocument
    /\ inputIgnored' = FALSE
    /\ UNCHANGED <<waferParams, chipParams, currentLabel, currentColor, chips,
                   gridFrom, downloaded, updateReturned, isDragging,
                   dragListeners>>

\* handleDragMove, run for a mousemove over the container while it is
\* registered
HandleDragMove(target) ==
    /\ gridFrom.installed
    /\ dragListeners
    /\ chips' = IF isDragging /\ target # 0
                THEN updateChip(chips, chips[target].id,
                                [color |-> currentColor, label |-> currentLabel])
                ELSE chips
    /\ loadResult' = "none"
    /\ lastJson' = NoDocument
    /\ inputIgnored' = FALSE
    /\ UNCHANGED <<waferParams, chipParams, currentLabel, currentColor,
                   gridFrom, downloaded, updateReturned>>
    /\ UNCHANGED dragVars

\* handleDragEnd, run for a mouseup over the container while it is
\* registered; a mouseup over the container without it only ends the press
HandleDragEnd ==
    /\ gridFrom.installed
    /\ buttonDown
    /\ buttonDown' = FALSE
    /\ pressedOnChip' = FALSE
    /\ IF dragListeners
       THEN isDragging' = FALSE /\ dragListeners' = FALSE
       ELSE UNCHANGED <<isDragging, dragListeners>>
    /\ loadResult' = "none"
    /\ lastJson' = NoDocument
    /\ inputIgnored' = FALSE
    /\ UNCHANGED <<waferParams, chipParams, currentLabel, currentColor, chips,
                   gridFrom, downloaded, updateReturned>>

\* the button is released outside the container: the mouseup event has its
\* target there and no listener of the container runs
MouseUpElsewhere ==
    /\ gridFrom.installed
    /\ buttonDown
    /\ buttonDown' = FALSE
    /\ pressedOnChip' = FALSE
    /\ loadResult' = "none"
    /\ lastJson' = NoDocument
    /\ inputIgnored' = FALSE
    /\ UNCHANGED <<waferParams, chipParams, currentLabel, currentColor, chips,
                   gridFrom, downloaded, updateReturned, isDragging,
                   dragListeners>>

\* the click event follows the release of the button over a chip
ClickOnChip(k) == ~buttonDown /\ HandleChipClick(k)

NextDrag ==
    \/ WaferMappingInit
    \/ \E p \in DragLabelParams : HandleLabelParamsChange(p)
    \/ \E t \in DragTargets : HandleDragStart(t)
    \/ MouseDownElsewhere
    \/ \E t \in DragTargets : HandleDragMove(t)
    \/ HandleDragEnd
    \/ MouseUpElsewhere
    \/ \E k \in 1..Len(chips) : ClickOnChip(k)

SpecDrag == Init /\ [][NextDrag]_vars

-----------------------------------------------------------------------------
(* JavaScript numbers as IEEE 754 doubles.  A natural number of any size   *)
(* is a sequence of digits to the base 2^15, least significant first, no   *)
(* zero digit at the end (<< >> is 0).  A double is s * m * 2^e with s the *)
(* sign (1 or -1), m such a natural number below 2^53, odd unless it is 0, *)
(* and e an integer.  Every operation computes the exact result and rounds *)
(* it to nearest, ties to even.  Infinities, NaN, subnormal numbers and    *)
(* the sign of zero are not represented.                                   *)
(*                                                                         *)
(* TLC evaluates the argument of an operator where the operator first      *)
(* uses it, inside whatever it is evaluating then.  Only({e(x) : x \in     *)
(* {d}}) is e(d) with d evaluated first; the operators below use it to     *)
(* keep the evaluation shallow.                                            *)

Base == 32768
BaseBits == 15
MantissaBits == 53

Max(a, b) == IF a >= b THEN a ELSE b
Min(a, b) == IF a <= b THEN a ELSE b

\* the element of a set of one element
Only(S) == CHOOSE x \in S : TRUE

Digit(a, i) == IF i >= 1 /\ i <= Len(a) THEN a[i] ELSE 0

BigTrim(a) ==
    LET nz == {i \in 1..Len(a) : a[i] # 0}
    IN  IF nz = {} THEN << >>
        ELSE SubSeq(a, 1, CHOOSE i \in nz : \A j \in nz : j <= i)

\* a + b.  Digit i receives a carry iff a digit below it overflows and
\* every digit between the two is Base - 1 before the carry
BigAdd(a, b) ==
    IF a = << >> THEN b
    ELSE IF b = << >> THEN a
    ELSE BigTrim([i \in 1..(Max(Len(a), Len(b)) + 1) |->
            (Digit(a, i) + Digit(b, i)
             + (IF \E j \in 1..(i - 1) :
                       /\ Digit(a, j) + Digit(b, j) >= Base
                       /\ \A k \in (j + 1)..(i - 1) :
                              Digit(a, k) + Digit(b, k) = Base - 1
                THEN 1 ELSE 0)) % Base])

\* a - b for a >= b.  Digit i lends iff a digit below it is short and the
\* digits between the two are equal
BigSub(a, b) ==
    IF b = << >> THEN a
    ELSE BigTrim([i \in 1..Len(a) |->
            (Base + Digit(a, i) - Digit(b, i)
             - (IF \E j \in 1..(i - 1) :
                       /\ Digit(a, j) < Digit(b, j)
                       /\ \A k \in (j + 1)..(i - 1) : Digit(a, k) = Digit(b, k)
                THEN 1 ELSE 0)) % Base])

\* -1, 0 or 1 as a is below, equal to or above b
BigCmp(a, b) ==
    IF Len(a) # Len(b) THEN (IF Len(a) < Len(b) THEN -1 ELSE 1)
    ELSE LET df == {i \in 1..Len(a) : a[i] # b[i]}
         IN  IF df = {} THEN 0
             ELSE LET top == CHOOSE i \in df : \A j \in df : j <= i
                  IN  IF a[top] < b[top] THEN -1 ELSE 1

\* a * k for a digit k: the low halves of the products of the digits, and
\* their high halves one place up
BigMulSmall(a, k) ==
    IF a = << >> \/ k = 0 THEN << >>
    ELSE BigAdd(BigTrim([i \in 1..Len(a) |-> (a[i] * k) % Base]),
                BigTrim(<<0>> \o [i \in 1..Len(a) |-> (a[i] * k) \div Base]))

Zeros(n) == [i \in 1..n |-> 0]

\* a * (the digits j.. of b) * Base^(j - 1)
RECURSIVE MulFrom(_, _, _)
MulFrom(a, b, j) ==
    IF j > Len(b) THEN << >>
    ELSE Only({BigAdd(Zeros(j - 1) \o BigMulSmall(a, b[j]), rest) :
                  rest \in {MulFrom(a, b, j + 1)}})

BigMul(a, b) == IF a = << >> \/ b = << >> THEN << >> ELSE BigTrim(MulFrom(a, b, 1))

\* a * 2^k
BigShl(a, k) ==
    IF a = << >> THEN << >>
    ELSE Zeros(k \div BaseBits) \o BigMulSmall(a, 2 ^ (k % BaseBits))

\* floor(a / 2^k)
BigShr(a, k) ==
    LET q == k \div BaseBits
        r == k % BaseBits
    IN  IF q >= Len(a) THEN << >>
        ELSE BigTrim([i \in 1..(Len(a) - q) |->
                        (Digit(a, i + q) \div (2 ^ r))
                        + (Digit(a, i + q + 1) % (2 ^ r)) * (2 ^ (BaseBits - r))])

\* the k low bits of a are 0
LowBitsZero(a, k) ==
    /\ \A i \in 1..Min(k \div BaseBits, Len(a)) : a[i] = 0
    /\ Digit(a, k \div BaseBits + 1) % (2 ^ (k % BaseBits)) = 0

\* bit i of a, i from 0
Bit(a, i) == (Digit(a, i \div BaseBits + 1) \div (2 ^ (i % BaseBits))) % 2

\* the number of bits of a
BitLen(a) ==
    IF a = << >> THEN 0
    ELSE BaseBits * (Len(a) - 1)
         + (CHOOSE n \in 1..BaseBits :
                2 ^ (n - 1) <= a[Len(a)] /\ a[Len(a)] < 2 ^ n)

\* the number of low bits of a # 0 that are 0
TrailingZeros(a) ==
    LET j == CHOOSE i \in 1..Len(a) : a[i] # 0 /\ \A h \in 1..(i - 1) : a[h] = 0
    IN  BaseBits * (j - 1)
        + (CHOOSE n \in 0..(BaseBits - 1) :
               a[j] % (2 ^ n) = 0 /\ a[j] % (2 ^ (n + 1)) # 0)

\* One step of long division by b, whose top digit is Base / 2 or more:
\* r2 is the remainder so far with the next digit of the dividend put
\* below it, r2 < b * Base.  The quotient of the two top digits of r2 by
\* the top digit of b is the quotient digit or up to 2 above it
DivStep(r2, b) ==
    LET guess == Min(Base - 1,
                     (Digit(r2, Len(b) + 1) * Base + Digit(r2, Len(b)))
                         \div b[Len(b)])
    IN  Only({[q |-> q, r |-> BigSub(r2, BigMulSmall(b, q))] :
                q \in {c \in 0..guess :
                         /\ c >= guess - 2
                         /\ BigCmp(BigMulSmall(b, c), r2) <= 0
                         /\ \A g \in (c + 1)..guess :
                                BigCmp(BigMulSmall(b, g), r2) > 0}})

\* the digits j.. of a divided by b, from the top digit down; the top
\* Len(b) - 1 digits of a are below b
RECURSIVE DivDigits(_, _, _)
DivDigits(a, b, j) ==
    IF j > Len(a) - (Len(b) - 1)
    THEN [q |-> << >>, r |-> BigTrim(SubSeq(a, j, Len(a)))]
    ELSE Only({[q |-> <<d.q>> \o d.above, r |-> d.r] :
                  d \in {[above |-> p.q] @@ DivStep(BigTrim(<<a[j]>> \o p.r), b) :
                            p \in {DivDigits(a, b, j + 1)}}})

\* the quotient of a by b # 0, and whether it is exact.  Both are shifted
\* first to bring the top digit of b to Base / 2 or above
BigDivMod(a, b) ==
    Only({[q |-> BigTrim(d.q), exact |-> d.r = << >>] :
             d \in {DivDigits(BigShl(a, up), BigShl(b, up), 1) :
                      up \in {BaseBits * Len(b) - BitLen(b)}}})

\* a natural number below 2^31 as digits, and back
BigFromNat(n) == BigTrim(<<n % Base, (n \div Base) % Base, n \div (Base * Base)>>)
BigToNat(a) == Digit(a, 1) + Digit(a, 2) * Base + Digit(a, 3) * Base * Base

Zero == [s |-> 1, m |-> << >>, e |-> 0]

\* s * m * 2^e with the zero bits at the low end of m moved to e
Canonical(s, m, e) ==
    IF m = << >> THEN Zero
    ELSE Only({[s |-> s, m |-> BigShr(m, z), e |-> e + z] :
                  z \in {TrailingZeros(m)}})

\* the double nearest to x.s * x.m * 2^x.e, ties to even
Round(x) ==
    IF BitLen(x.m) <= MantissaBits THEN Canonical(x.s, x.m, x.e)
    ELSE Only({Canonical(x.s,
                         IF /\ Bit(x.m, k - 1) = 1
                            /\ (~LowBitsZero(x.m, k - 1) \/ Bit(q, 0) = 1)
                         THEN BigAdd(q, <<1>>) ELSE q,
                         x.e + k) :
                  q \in {BigShr(x.m, BitLen(x.m) - MantissaBits)},
                  k \in {BitLen(x.m) - MantissaBits}})

FromInt(n) ==
    Canonical(IF n < 0 THEN -1 ELSE 1, BigFromNat(IF n < 0 THEN -n ELSE n), 0)

FNeg(a) == IF a.m = << >> THEN a ELSE [a EXCEPT !.s = -a.s]
FAbs(a) == [a EXCEPT !.s = 1]

\* the exact sum of a and b as sign, natural number and exponent
ExactSum(a, b) ==
    Only({IF a.s = b.s THEN [s |-> a.s, m |-> BigAdd(ma, mb), e |-> Min(a.e, b.e)]
          ELSE IF BigCmp(ma, mb) >= 0
               THEN [s |-> a.s, m |-> BigSub(ma, mb), e |-> Min(a.e, b.e)]
               ELSE [s |-> b.s, m |-> BigSub(mb, ma), e |-> Min(a.e, b.e)] :
             ma \in {BigShl(a.m, a.e - Min(a.e, b.e))},
             mb \in {BigShl(b.m, b.e - Min(a.e, b.e))}})

FAdd(a, b) ==
    IF a.m = << >> THEN b
    ELSE IF b.m = << >> THEN a
    ELSE Only({Round(x) : x \in {ExactSum(a, b)}})

FSub(a, b) == FAdd(a, FNeg(b))

FMul(a, b) ==
    IF a.m = << >> \/ b.m = << >> THEN Zero
    ELSE Only({Round(x) :
                  x \in {[s |-> a.s * b.s, m |-> BigMul(a.m, b.m), e |-> a.e + b.e]}})

\* a / b for b # 0: the quotient to more than MantissaBits + 1 bits, with a
\* last bit that says whether a remainder is left, then rounded
FDiv(a, b) ==
    IF a.m = << >> \/ b.m = << >> THEN Zero
    ELSE Only({Round(x) :
                  x \in {[s |-> a.s * b.s,
                          m |-> BigAdd(BigShl(d.q, 1),
                                       IF d.exact THEN << >> ELSE <<1>>),
                          e |-> a.e - b.e - d.t - 1] :
                           d \in {[t |-> t] @@ BigDivMod(BigShl(a.m, t), b.m) :
                                     t \in {Max(0, MantissaBits + 2
                                                   + BitLen(b.m) - BitLen(a.m))}}}})

\* a < b
FLess(a, b) ==
    IF a.m = << >> THEN b.m # << >> /\ b.s = 1
    ELSE IF b.m = << >> THEN a.s = -1
    ELSE \E x \in {ExactSum(a, FNeg(b))} : x.m # << >> /\ x.s = -1

\* Math.ceil(a) as an integer, for a of small magnitude
FCeil(a) ==
    IF a.m = << >> THEN 0
    ELSE IF a.e >= 0 THEN a.s * BigToNat(BigShl(a.m, a.e))
    ELSE IF a.s = 1 THEN BigToNat(BigShr(a.m, -a.e)) + 1
    ELSE -BigToNat(BigShr(a.m, -a.e))

\* Math.sqrt(a) > u for a >= 0.  The square root is rounded to nearest, so
\* it exceeds u > 0 iff a is above the square of the midpoint of u and the
\* next double; that square is no double, so a is never equal to it
FSqrtExceeds(a, u) ==
    IF u.m = << >> THEN a.m # << >>
    ELSE IF u.s = -1 THEN TRUE
    ELSE IF a.m = << >> THEN FALSE
    ELSE \E h \in {BigAdd(BigShl(u.m, MantissaBits - BitLen(u.m) + 1), <<1>>)} :
         \E x \in {ExactSum(a, [s |-> -1, m |-> BigMul(h, h),
                                e |-> 2 * (u.e - (MantissaBits - BitLen(u.m)) - 1)])} :
             x.m # << >> /\ x.s = 1

\* parseFloat of the decimal n / 10^d
FromDecimal(n, d) == FDiv(FromInt(n), FromInt(10 ^ d))

-----------------------------------------------------------------------------
(* generateChipGrid and load in doubles.  The parameters stay the integers *)
(* of twentieths of a millimetre they are everywhere else; Millimetres     *)
(* gives the double that parseFloat makes of the decimal the user typed.   *)
(* The x, y, width and height of the chips of this section are doubles.    *)

\* parseFloat of n / 20 written as a decimal
Millimetres(n) == FDiv(FromInt(n), FromInt(20))

\* the literal 0.1 of load
ToleranceDouble == FromDecimal(1, 1)

\* getFlatCutoff for flatAngleDeg = 0, the one flat angle of this section:
\* Math.cos(0) is 1 and Math.sin(0) is 0
getFlatCutoffDouble(waferRadius) ==
    [xCutoff |-> FMul(FNeg(waferRadius), FromInt(1)),
     yMax |-> FMul(waferRadius, FromInt(0))]

\* the body of the loop over the corners: the corner makes the chip outside
CornerOutsideDouble(cx, cy, usableRadius, flatParams) ==
    \/ FSqrtExceeds(FAdd(FMul(cx, cx), FMul(cy, cy)), usableRadius)
    \/ /\ FLess(cx, flatParams.xCutoff)
       /\ FLess(FAbs(cy), flatParams.yMax)

\* no corner makes the chip outside
isChipInsideWaferDouble(x, y, chipWidth, chipHeight, usableRadius, flatParams) ==
    \A cx \in {x, FAdd(x, chipWidth)}, cy \in {y, FAdd(y, chipHeight)} :
        ~CornerOutsideDouble(cx, cy, usableRadius, flatParams)

\* Math.ceil(diameter / chipWidth) + 2, and the same of chipHeight
numColsDouble(diameter, chipWidth) == FCeil(FDiv(diameter, chipWidth)) + 2

\* xStart = -gridWidth / 2 with gridWidth = numCols * chipWidth
xStartDouble(cols, chipWidth) ==
    FDiv(FNeg(FMul(FromInt(cols), chipWidth)), FromInt(2))

\* the chip of cell k (row-major, from 0) as the first pass builds it, its
\* number apart; first and size are the doubles xStart, yStart, chipWidth,
\* chipHeight
CellChipDouble(first, size, circle, cols, k) ==
    Only({[id |-> k, x |-> x, y |-> y,
           width |-> size.width, height |-> size.height,
           inside |-> isChipInsideWaferDouble(x, y, size.width, size.height,
                          circle.usableRadius, circle.flatParams),
           color |-> DefaultColor, label |-> DefaultLabel, number |-> Null] :
             x \in {FAdd(first.x, FMul(FromInt(k % cols), size.width))},
             y \in {FAdd(first.y, FMul(FromInt(k \div cols), size.height))}})

\* the comparator (a, b) => a.y - b.y || a.x - b.x is negative
BeforeDouble(a, b) == FLess(a.y, b.y) \/ (a.y = b.y /\ FLess(a.x, b.x))

\* the stable sort puts b in front of a
SortsBeforeDouble(b, a) ==
    BeforeDouble(b, a) \/ (~BeforeDouble(a, b) /\ b.id < a.id)

\* second pass: chip.number = index + 1 in the sorted inside chips
SecondPassDouble(tempChips) ==
    [k \in 1..Len(tempChips) |->
        IF tempChips[k].inside
        THEN [tempChips[k] EXCEPT !.number =
                1 + Cardinality({j \in 1..Len(tempChips) :
                      tempChips[j].inside
                      /\ SortsBeforeDouble(tempChips[j], tempChips[k])})]
        ELSE tempChips[k]]

\* generateChipGrid on numeric parameters
generateChipGridDouble(wp, chipWidth, chipHeight) ==
    LET diameter == Millimetres(wp.diameter.v)
        size == [width |-> Millimetres(chipWidth.v),
                 height |-> Millimetres(chipHeight.v)]
        waferRadius == FDiv(diameter, FromInt(2))
        circle == [usableRadius |->
                       FSub(waferRadius, Millimetres(wp.excludedRadius.v)),
                   flatParams |-> getFlatCutoffDouble(waferRadius)]
        cols == numColsDouble(diameter, size.width)
        rows == numColsDouble(diameter, size.height)
        first == [x |-> xStartDouble(cols, size.width),
                  y |-> xStartDouble(rows, size.height)]
    IN  IF cols <= 0 \/ rows <= 0 THEN << >>
        ELSE SecondPassDouble(
                 [k \in 1..(rows * cols) |->
                     CellChipDouble(first, size, circle, cols, k - 1)])

GridCellsDouble(wp, cp) ==
    LET cols == numColsDouble(Millimetres(wp.diameter.v), Millimetres(cp.width.v))
        rows == numColsDouble(Millimetres(wp.diameter.v), Millimetres(cp.height.v))
    IN  IF cols <= 0 \/ rows <= 0 THEN 0 ELSE rows * cols

\* the predicate of importedChips.find
MatchesDouble(importedChip, newChip) ==
    /\ FLess(FAbs(FSub(importedChip.x, newChip.x)), ToleranceDouble)
    /\ FLess(FAbs(FSub(importedChip.y, newChip.y)), ToleranceDouble)

\* the index find stops at with a match, 0 for none
MatchIndexDouble(items, newChip) ==
    LET hits == {i \in 1..Len(items) : MatchesDouble(items[i], newChip)}
    IN  IF hits = {} THEN 0 ELSE CHOOSE i \in hits : \A j \in hits : i <= j

\* the body of newChips.forEach for one chip
ReconcileDouble(items, newChip) ==
    IF ~newChip.inside THEN newChip
    ELSE LET m == MatchIndexDouble(items, newChip)
         IN  IF m = 0 THEN newChip
             ELSE [newChip EXCEPT
                     !.color = IF items[m].color # ""
                               THEN items[m].color ELSE @,
                     !.label = IF items[m].label # ""
                               THEN items[m].label ELSE @]

\* WaferState.load of a document that exportToJson wrote: it parses, its
\* chips are an array without null, and a number it holds is read back as
\* the double that was written
loadDouble(wp, cp, doc) ==
    LET p == LoadParams(wp, cp, doc)
        newChips == generateChipGridDouble(p.wafer, p.chip.width, p.chip.height)
    IN  [waferParams |-> p.wafer, chipParams |-> p.chip,
         chips |-> [k \in 1..Len(newChips) |->
                       ReconcileDouble(doc.chips.items, newChips[k])]]

\* the parameters of this section, all without a flat: a wafer of 1.6 mm
\* with an excluded radius of 0.3 mm and chips of 0.6 x 0.4 and of
\* 0.4 x 0.6 mm, a wafer of 1 mm with chips of 0.1 x 0.4 and of 0.4 x 0.1 mm,
\* a wafer of 2 mm with chips of 0.5 x 0.5 mm, and a wafer of 1.2 mm with
\* chips of 0.3 x 0.3 mm
DoubleParams ==
    { [wafer |-> [diameter |-> Num(32), flatAngle |-> Num(0),
                  excludedRadius |-> Num(6)],
       chip |-> [width |-> Num(12), height |-> Num(8)]],
      [wafer |-> [diameter |-> Num(32), flatAngle |-> Num(0),
                  excludedRadius |-> Num(6)],
       chip |-> [width |-> Num(8), height |-> Num(12)]],
      [wafer |-> [diameter |-> Num(20), flatAngle |-> Num(0),
                  excludedRadius |-> Num(0)],
       chip |-> [width |-> Num(2), height |-> Num(8)]],
      [wafer |-> [diameter |-> Num(20), flatAngle |-> Num(0),
                  excludedRadius |-> Num(0)],
       chip |-> [width |-> Num(8), height |-> Num(2)]],
      [wafer |-> [diameter |-> Num(40), flatAngle |-> Num(0),
                  excludedRadius |-> Num(0)],
       chip |-> [width |-> Num(10), height |-> Num(10)]],
      [wafer |-> [diameter |-> Num(24), flatAngle |-> Num(0),
                  excludedRadius |-> Num(0)],
       chip |-> [width |-> Num(6), height |-> Num(6)]] }

InitDouble ==
    /\ \E p \in DoubleParams : waferParams = p.wafer /\ chipParams = p.chip
    /\ currentLabel = ""
    /\ currentColor = DefaultColor
    /\ chips = << >>
    /\ loadResult = "none"
    /\ gridFrom = [Grid(waferParams, chipParams) EXCEPT !.installed = FALSE]
    /\ lastJson = NoDocument
    /\ downloaded = NoDocument
    /\ updateReturned = "none"
    /\ isDragging = FALSE
    /\ dragListeners = FALSE
    /\ buttonDown = FALSE
    /\ pressedOnChip = FALSE
    /\ inputIgnored = FALSE

\* WaferMapping.init
WaferMappingInitDouble ==
    /\ ~gridFrom.installed
    /\ GridCellsDouble(waferParams, chipParams) <= MaxCells
    /\ chips' = generateChipGridDouble(waferParams, chipParams.width,
                                       chipParams.height)
    /\ gridFrom' = Grid(waferParams, chipParams)
    /\ loadResult' = "none"
    /\ lastJson' = NoDocument
    /\ inputIgnored' = FALSE
    /\ UNCHANGED <<waferParams, chipParams, currentLabel, currentColor, downloaded,
                   updateReturned>>
    /\ UNCHANGED dragVars

\* handleImportJson of the file exportToJson downloaded
ImportDownloadedDouble ==
    /\ gridFrom.installed
    /\ downloaded # NoDocument
    /\ \E r \in {loadDouble(waferParams, chipParams, downloaded)} :
           /\ waferParams' = r.waferParams
           /\ chipParams' = r.chipParams
           /\ chips' = r.chips
           /\ gridFrom' = Grid(r.waferParams, r.chipParams)
    /\ loadResult' = "ok"
    /\ lastJson' = downloaded
    /\ inputIgnored' = FALSE
    /\ UNCHANGED <<currentLabel, currentColor, downloaded, updateReturned>>
    /\ UNCHANGED dragVars

NextDouble ==
    \/ WaferMappingInitDouble
    \/ \E p \in UiLabelParams : HandleLabelParamsChange(p)
    \/ \E k \in 1..Len(chips) : HandleChipClick(k)
    \/ HandleExportJson
    \/ ImportDownloadedDouble

SpecDouble == InitDouble /\ [][NextDouble]_vars

-----------------------------------------------------------------------------
(* The claims *)

\* the parameters the current collection was generated from
D0 == gridFrom.wafer.diameter.v
E0 == gridFrom.wafer.excludedRadius.v
A0 == gridFrom.wafer.flatAngle.v
W0 == gridFrom.chip.width.v
H0 == gridFrom.chip.height.v

\* a grid has been generated from numbers
Generated ==
    /\ gridFrom.installed
    /\ IsNum(gridFrom.wafer.diameter) /\ IsNum(gridFrom.wafer.excludedRadius)
    /\ IsNum(gridFrom.wafer.flatAngle)
    /\ IsNum(gridFrom.chip.width) /\ IsNum(gridFrom.chip.height)

\* ... from a positive diameter and positive chip dimensions
GeneratedValid == Generated /\ D0 > 0 /\ W0 > 0 /\ H0 > 0

\* the point (px, py), doubled, is within usableRadius of the centre
WithinUsableRadius(px, py) ==
    D0 - 2 * E0 >= 0 /\ px * px + py * py <= (D0 - 2 * E0) * (D0 - 2 * E0)

\* the point is in the flat cutoff region x < xCutoff, |y| < yMax, the
\* flat being that of the full wafer radius
InCutoffRegion(px, py) ==
    /\ px * TrigDen < -(D0 * CosHalf(A0))
    /\ Abs(py) * TrigDen < D0 * SinHalf(A0)

FourCorners(c) ==
    {<<c.x, c.y>>, <<c.x + 2 * c.width, c.y>>, <<c.x, c.y + 2 * c.height>>,
     <<c.x + 2 * c.width, c.y + 2 * c.height>>}

InsideChips == {k \in 1..Len(chips) : chips[k].inside}

\* C1: a chip is inside iff each of its four corners is within usableRadius
\* of the centre and not in the flat cutoff region
C1_InsideIffFourCorners ==
    Generated =>
        \A k \in 1..Len(chips) :
            chips[k].inside <=>
                \A p \in FourCorners(chips[k]) :
                    WithinUsableRadius(p[1], p[2]) /\ ~InCutoffRegion(p[1], p[2])

\* a grid with inside chips, a chip excluded by the circle alone and a
\* chip excluded by the flat alone
C1_Witness ==
    /\ Generated
    /\ InsideChips # {}
    /\ \E k \in 1..Len(chips) :
          /\ ~chips[k].inside
          /\ \A p \in FourCorners(chips[k]) : WithinUsableRadius(p[1], p[2])
    /\ \E k \in 1..Len(chips) :
          /\ ~chips[k].inside
          /\ \A p \in FourCorners(chips[k]) : ~InCutoffRegion(p[1], p[2])

\* the corners, the edge midpoints and the centre of a chip's rectangle
RectPoints(c) ==
    {<<c.x + i * c.width, c.y + j * c.height>> : i \in 0..2, j \in 0..2}

\* C2: for every parameter set the state can hold, a chip is inside iff
\* every point of its rectangle lies in the usable wafer area
C2_InsideIffRectangleUsable ==
    Generated =>
        \A k \in 1..Len(chips) :
            chips[k].inside <=>
                \A p \in RectPoints(chips[k]) :
                    WithinUsableRadius(p[1], p[2]) /\ ~InCutoffRegion(p[1], p[2])

\* C3: the numbers of the N inside chips are 1..N, each once; an outside
\* chip has number null; ascending (y, x) means ascending number
C3_NumberingBijection ==
    gridFrom.installed =>
        /\ {chips[k].number : k \in InsideChips} = 1..Cardinality(InsideChips)
        /\ \A j, k \in InsideChips : chips[j].number = chips[k].number => j = k
        /\ \A k \in 1..Len(chips) : ~chips[k].inside => chips[k].number = Null
        /\ \A j, k \in InsideChips :
              (chips[j].y < chips[k].y
                  \/ (chips[j].y = chips[k].y /\ chips[j].x < chips[k].x))
              => chips[j].number < chips[k].number

\* a grid with inside chips in several rows and columns, and outside chips
C3_Witness ==
    /\ gridFrom.installed
    /\ \E j, k \in InsideChips : chips[j].y < chips[k].y
    /\ \E j, k \in InsideChips : chips[j].x < chips[k].x
    /\ \E k \in 1..Len(chips) : ~chips[k].inside

\* Math.ceil(a / b) for positive a and b, from what a ceiling is
CeilingOf(a, b) == CHOOSE n \in 1..a : n * b >= a /\ (n - 1) * b < a

\* C4: for a positive diameter and positive chip dimensions the list holds
\* rows*cols chips, cols = ceil(diameter/width)+2, rows =
\* ceil(diameter/height)+2; the chip at index k has id k, is at row
\* floor(k/cols), column k mod cols, with its corner at (xStart + col*width,
\* yStart + row*height), xStart = -(cols*width)/2, yStart = -(rows*height)/2;
\* ids are distinct and the outside chips are in the list
C4_GridLayout ==
    GeneratedValid =>
        LET cols == CeilingOf(D0, W0) + 2
            rows == CeilingOf(D0, H0) + 2
        IN  /\ Len(chips) = rows * cols
            /\ \A k \in 0..(Len(chips) - 1) :
                  /\ chips[k + 1].id = k
                  /\ chips[k + 1].x = -(cols * W0) + 2 * (k % cols) * W0
                  /\ chips[k + 1].y = -(rows * H0) + 2 * (k \div cols) * H0
            /\ \A j, k \in 1..Len(chips) : chips[j].id = chips[k].id => j = k

\* a grid whose diameter is no multiple of the chip width, with inside chips
C4_Witness ==
    /\ GeneratedValid
    /\ D0 % W0 # 0
    /\ InsideChips # {}
    /\ Len(chips) > Cardinality(InsideChips)

\* C5: a load that returns false leaves waferParams and chipParams as they
\* were
C5_FailedLoadKeepsParams ==
    [][loadResult' = "failed" =>
          waferParams' = waferParams /\ chipParams' = chipParams]_vars

\* C6: a load that returns false leaves the chip collection as it was
C6_FailedLoadKeepsChips ==
    [][loadResult' = "failed" => chips' = chips]_vars

\* a load has failed after it had changed the parameters, on a collection
\* with an edited chip
C6_Witness ==
    /\ loadResult = "failed"
    /\ waferParams # gridFrom.wafer
    /\ \E k \in 1..Len(chips) : chips[k].color # DefaultColor

\* the expected shape of a document: waferParams and chipParams with
\* numeric fields, chips a list of chip records
ExpectedShape(doc) ==
    /\ doc.syntax = "ok" /\ doc.root = "object"
    /\ doc.waferParams.present
    /\ IsNum(doc.waferParams.diameter) /\ IsNum(doc.waferParams.flatAngle)
    /\ IsNum(doc.waferParams.excludedRadius)
    /\ doc.chipParams.present
    /\ IsNum(doc.chipParams.width) /\ IsNum(doc.chipParams.height)
    /\ doc.chips.kind = "array"
    /\ \A i \in 1..Len(doc.chips.items) : ~doc.chips.items[i].isNull

\* C7: load returns true only for a document of the expected shape
C7_LoadRejectsMalformed ==
    gridFrom.installed =>
        \A doc \in Docs :
            (GridCells(LoadParams(waferParams, chipParams, doc).wafer,
                       LoadParams(waferParams, chipParams, doc).chip) <= MaxCells
             /\ load(waferParams, chipParams, chips, doc).ok)
            => ExpectedShape(doc)

\* a number that is not positive
NonPositive(a) == IsNum(a) /\ a.v <= 0

\* C8: no grid computed from a chip width or height <= 0 is installed
C8_NoGridFromNonPositiveChip ==
    gridFrom.installed =>
        ~NonPositive(gridFrom.chip.width) /\ ~NonPositive(gridFrom.chip.height)

\* C9: no grid computed from a diameter <= 0 is installed
C9_NoGridFromNonPositiveDiameter ==
    gridFrom.installed => ~NonPositive(gridFrom.wafer.diameter)

\* C10: with excludedRadius >= diameter/2 (and positive diameter and chip
\* dimensions) the full grid of rows*cols chips is returned, every chip
\* outside and without a number
C10_OverExcludedAllOutside ==
    (GeneratedValid /\ 2 * E0 >= D0) =>
        /\ Len(chips) = (CeilingOf(D0, W0) + 2) * (CeilingOf(D0, H0) + 2)
        /\ \A k \in 1..Len(chips) : ~chips[k].inside /\ chips[k].number = Null

\* the excluded radius is exactly the wafer radius, and there are chips
C10_Witness ==
    GeneratedValid /\ 2 * E0 = D0 /\ Len(chips) > 0

\* the chip records of the document load was given
SavedItems ==
    IF lastJson.chips.kind = "array" THEN lastJson.chips.items ELSE << >>

\* the saved chips within 0.1 mm of chip k on both axes
Within(k) ==
    {i \in 1..Len(SavedItems) :
        /\ ~SavedItems[i].isNull
        /\ Abs(SavedItems[i].x - chips[k].x) < Tolerance
        /\ Abs(SavedItems[i].y - chips[k].y) < Tolerance}

FirstWithin(k) == CHOOSE i \in Within(k) : \A j \in Within(k) : i <= j

\* C11: after a successful load an inside chip with saved chips within
\* 0.1 mm (strictly) on both axes has the color and the label of the first
\* of them in list order, whichever is closer
C11_FirstSavedChipWins ==
    loadResult = "ok" =>
        \A k \in InsideChips :
            Within(k) # {} =>
                LET s == SavedItems[FirstWithin(k)]
                IN  /\ s.color # "" => chips[k].color = s.color
                    /\ s.label # "" => chips[k].label = s.label

\* an inside chip took the color of a saved chip off its position although
\* a later saved chip is at its position, and a saved chip listed before
\* both is exactly 0.1 mm away
C11_Witness ==
    /\ loadResult = "ok"
    /\ \E k \in InsideChips : \E e, i, j \in 1..Len(SavedItems) :
          /\ e < i /\ i < j
          /\ Abs(SavedItems[e].x - chips[k].x) = Tolerance
          /\ SavedItems[e].y = chips[k].y
          /\ i \in Within(k) /\ j \in Within(k)
          /\ SavedItems[i].x # chips[k].x
          /\ SavedItems[j].x = chips[k].x /\ SavedItems[j].y = chips[k].y
          /\ SavedItems[i].color # SavedItems[j].color
          /\ chips[k].color = SavedItems[i].color
          /\ chips[k].label = SavedItems[i].label

\* C12: after a successful load a chip with a color or a label that is not
\* the default is inside and has a saved chip within tolerance; a matched
\* chip keeps the default of what its saved chip lacks
C12_DefaultsUnlessMatched ==
    loadResult = "ok" =>
        \A k \in 1..Len(chips) :
            /\ (chips[k].color # DefaultColor \/ chips[k].label # DefaultLabel)
                   => chips[k].inside /\ Within(k) # {}
            /\ (chips[k].inside /\ Within(k) # {}) =>
                   /\ SavedItems[FirstWithin(k)].color = ""
                          => chips[k].color = DefaultColor
                   /\ SavedItems[FirstWithin(k)].label = ""
                          => chips[k].label = DefaultLabel

\* a load that matched an inside chip to a saved chip without a color, and
\* left an outside chip with a colored saved chip at its position alone
C12_Witness ==
    /\ loadResult = "ok"
    /\ \E k \in 1..Len(chips) :
          /\ ~chips[k].inside /\ Within(k) # {}
          /\ SavedItems[FirstWithin(k)].color # ""
          /\ chips[k].color = DefaultColor
    /\ \E k \in InsideChips :
          /\ Within(k) # {}
          /\ SavedItems[FirstWithin(k)].color = ""
          /\ chips[k].label = SavedItems[FirstWithin(k)].label
          /\ chips[k].label # DefaultLabel
    /\ \E k \in InsideChips : Within(k) = {}

\* the number of a chip record of a document, null when it has none
NumberOf(item) == IF "number" \in DOMAIN item THEN item.number ELSE Null

\* C13: the collection that load builds from the exported document is, in
\* length and element for element (id, x, y, width, height, inside, number,
\* color, label), the collection that produced the document
C13_RoundTrip ==
    (loadResult = "ok" /\ lastJson = downloaded) =>
        /\ Len(chips) = Len(SavedItems)
        /\ \A k \in 1..Len(chips) :
              /\ chips[k].id = SavedItems[k].id
              /\ chips[k].x = SavedItems[k].x
              /\ chips[k].y = SavedItems[k].y
              /\ chips[k].width = SavedItems[k].width
              /\ chips[k].height = SavedItems[k].height
              /\ chips[k].inside = SavedItems[k].inside
              /\ chips[k].number = NumberOf(SavedItems[k])
              /\ chips[k].color = SavedItems[k].color
              /\ chips[k].label = SavedItems[k].label

\* chip.fileName as the renderer reads it: nothing when the chip has none
FileNameOf(chip) == IF "fileName" \in DOMAIN chip THEN chip.fileName ELSE ""

\* C14: after a successful load an inside chip whose matching saved chip
\* carries a file name carries that file name
C14_FileNamePreserved ==
    loadResult = "ok" =>
        \A k \in InsideChips :
            (Within(k) # {} /\ FileNameOf(SavedItems[FirstWithin(k)]) # "")
                => FileNameOf(chips[k]) = FileNameOf(SavedItems[FirstWithin(k)])

\* the id, x, y, width, height, inside and number of the chips of a list
Geometry(list) ==
    [k \in 1..Len(list) |->
        [id |-> list[k].id, x |-> list[k].x, y |-> list[k].y,
         width |-> list[k].width, height |-> list[k].height,
         inside |-> list[k].inside, number |-> list[k].number]]

\* C15: after a successful load the id, x, y, width, height, inside and
\* number of the chips are those of generateChipGrid on the parameters the
\* state holds after the merge of the document's parameters
C15_LoadGeometryIsFresh ==
    loadResult = "ok" =>
        Geometry(chips) =
            Geometry(generateChipGrid(waferParams, chipParams.width,
                                      chipParams.height))

\* a load that changed the parameters and matched an inside chip to a saved
\* chip whose id, inside and number are not those of the chip
C15_Witness ==
    /\ loadResult = "ok"
    /\ lastJson.waferParams.present /\ lastJson.chipParams.present
    /\ \E k \in InsideChips :
          /\ Within(k) # {}
          /\ SavedItems[FirstWithin(k)].id # chips[k].id
          /\ SavedItems[FirstWithin(k)].inside # chips[k].inside
          /\ SavedItems[FirstWithin(k)].number # chips[k].number
          /\ chips[k].color = SavedItems[FirstWithin(k)].color

\* the columns and rows of the grid of positive parameters
Cols0 == CeilingOf(D0, W0) + 2
Rows0 == CeilingOf(D0, H0) + 2

\* the point (px, py), doubled, is in the usable area
Usable(px, py) == WithinUsableRadius(px, py) /\ ~InCutoffRegion(px, py)

\* the cell of column i and row j of the grid's lattice (inside the grid or
\* next to it) lies in the usable area together with its eight neighbours:
\* the sixteen lattice points of that block are usable
BlockUsable(i, j) ==
    \A di, dj \in -1..2 :
        Usable(-(Cols0 * W0) + 2 * (i + di) * W0,
               -(Rows0 * H0) + 2 * (j + dj) * H0)

\* the outside chip at index b has inside chips on both sides in its row
HoleInRow(b) ==
    LET first == ((b - 1) \div Cols0) * Cols0 + 1
    IN  /\ \E a \in first..(b - 1) : chips[a].inside
        /\ \E c \in (b + 1)..(first + Cols0 - 1) : chips[c].inside

\* ... or in its column
HoleInColumn(b) ==
    /\ \E a \in 1..(b - 1) : (b - a) % Cols0 = 0 /\ chips[a].inside
    /\ \E c \in (b + 1)..Len(chips) : (c - b) % Cols0 = 0 /\ chips[c].inside

\* C16: with a usable radius > 0 (and positive diameter and chip sizes) the
\* inside chips cover the usable area up to a band of one chip: a lattice
\* cell that lies in the usable area with its neighbours is a cell of the
\* grid and an inside chip, and the inside chips of a row and of a column
\* are contiguous
C16_FullCoverage ==
    (GeneratedValid /\ D0 - 2 * E0 > 0) =>
        /\ \A i \in -1..Cols0, j \in -1..Rows0 :
              BlockUsable(i, j) =>
                  /\ i \in 0..(Cols0 - 1) /\ j \in 0..(Rows0 - 1)
                  /\ chips[j * Cols0 + i + 1].inside
        /\ \A b \in 1..Len(chips) :
              ~chips[b].inside => ~HoleInRow(b) /\ ~HoleInColumn(b)

\* C17: the current collection is at all times the complete list of one
\* generateChipGrid call (every cell, the numbers as generated), and empty
\* before the first generation
C17_CollectionIsOneGrid ==
    IF gridFrom.installed
    THEN /\ Len(chips) = GridCells(gridFrom.wafer, gridFrom.chip)
         /\ Geometry(chips) =
               Geometry(generateChipGrid(gridFrom.wafer, gridFrom.chip.width,
                                         gridFrom.chip.height))
    ELSE chips = << >>

\* a collection installed by a load with new parameters, with inside and
\* outside chips, that has been edited since
C17_Witness ==
    /\ gridFrom.installed
    /\ gridFrom.wafer.diameter # Num(DefaultDiameter)
    /\ loadResult = "none"
    /\ \E k \in InsideChips : chips[k].label # DefaultLabel
    /\ \E k \in InsideChips : chips[k].label = DefaultLabel
    /\ \E k \in 1..Len(chips) : ~chips[k].inside

\* what C18 says of a call updateChip(id, updates), from the collection
\* before it to the collection after it
UpdateChipPost(id, updates) ==
    IF \E k \in 1..Len(chips) : chips[k].id = id
    THEN /\ updateReturned' = "true"
         /\ Len(chips') = Len(chips)
         /\ \A k \in 1..Len(chips) :
               IF chips[k].id = id
               THEN /\ \A f \in DOMAIN updates : chips'[k][f] = updates[f]
                    /\ \A f \in DOMAIN chips[k] \ DOMAIN updates :
                          chips'[k][f] = chips[k][f]
               ELSE chips'[k] = chips[k]
    ELSE updateReturned' = "false" /\ chips' = chips

\* C18: updateChip(id, updates) on an id of the collection returns true,
\* gives that chip the listed values, keeps its other fields and every
\* other chip; on an id of no chip it returns false and changes nothing
C18_UpdateChipFrame ==
    [][\A id \in UpdateIds, updates \in UpdateSets :
          UpdateChipCall(id, updates) => UpdateChipPost(id, updates)]_vars

\* the last call was for an id of no chip, after calls that had set the
\* color alone of one chip and the label alone of another
C18_Witness ==
    /\ updateReturned = "false"
    /\ \E k \in 1..Len(chips) :
          chips[k].color = "#ff0000" /\ chips[k].label = DefaultLabel
    /\ \E k \in 1..Len(chips) :
          chips[k].color = DefaultColor /\ chips[k].label = "A1"

\* the fields a JSON chip record has (isNull is the model's mark of a null
\* element, no field)
FieldsOf(item) == DOMAIN item \ {"isNull"}

\* what C19 says of the document exportToJson hands to downloadFile, for
\* the collection it was called on
ExportPost ==
    /\ downloaded'.syntax = "ok" /\ downloaded'.root = "object"
    /\ downloaded'.waferParams.present
    /\ downloaded'.waferParams.diameter = waferParams.diameter
    /\ downloaded'.chipParams.present
    /\ downloaded'.chipParams.width = chipParams.width
    /\ downloaded'.chips.kind = "array"
    /\ Len(downloaded'.chips.items) = Len(chips)
    /\ \A k \in 1..Len(chips) :
          LET item == downloaded'.chips.items[k]
          IN  /\ FieldsOf(item) \subseteq DOMAIN chips[k]
              /\ \A f \in DOMAIN chips[k] :
                    IF f = "number" /\ chips[k][f] = Null
                    THEN f \notin FieldsOf(item)
                    ELSE f \in FieldsOf(item) /\ item[f] = chips[k][f]

\* C19: the exported document has waferParams, chipParams and chips, one
\* record per chip in the order of the collection, without the fields whose
\* value is null (number of an outside chip) and with every other field
C19_ExportOmitsNulls ==
    [][HandleExportJson => ExportPost]_vars

\* a downloaded document with records of outside chips, of inside chips and
\* of an edited chip
C19_Witness ==
    /\ downloaded # NoDocument
    /\ \E k \in 1..Len(downloaded.chips.items) :
          "number" \notin DOMAIN downloaded.chips.items[k]
    /\ \E k \in 1..Len(downloaded.chips.items) :
          /\ "number" \in DOMAIN downloaded.chips.items[k]
          /\ downloaded.chips.items[k].color # DefaultColor

\* the id, number, x, y and inside of the chips of a list
Placement(list) ==
    [k \in 1..Len(list) |->
        [id |-> list[k].id, number |-> list[k].number, x |-> list[k].x,
         y |-> list[k].y, inside |-> list[k].inside]]

GenerateMapStep ==
    \/ WaferMappingInit
    \/ \E d \in UiDiameters, a \in UiFlatAngles, e \in UiExcludedRadii :
          HandleWaferParamsChange(Num(d), Num(a), Num(e))
    \/ \E w \in UiWidths, h \in UiHeights :
          HandleChipParamsChange(Num(w), Num(h))

\* C21: every chip of the collection that generateMap installs has the
\* color '#ffffff' and the label '', so no color or label assigned before
\* the regeneration is left: a step that ends with a chip of another color
\* or label in the collection is no step of generateMap
C21_RegenerationClearsEdits ==
    [][(\E k \in 1..Len(chips') :
            chips'[k].color # DefaultColor \/ chips'[k].label # DefaultLabel)
          => ~GenerateMapStep]_vars

\* a collection generated by a parameter change with the labelling
\* parameters set: chips are there, none with a color or a label
C21_Witness ==
    /\ gridFrom.installed /\ loadResult = "none"
    /\ gridFrom.chip.width # Num(DefaultWidth)
    /\ currentColor # DefaultColor /\ currentLabel # DefaultLabel
    /\ InsideChips # {}
    /\ \A k \in 1..Len(chips) :
          chips[k].color = DefaultColor /\ chips[k].label = DefaultLabel

\* C22: with flatAngle = 0 a chip is inside iff its four corners are within
\* usableRadius of the centre: the classification of a circle without flat
C22_NoFlatIsPureCircle ==
    (Generated /\ A0 = 0) =>
        \A k \in 1..Len(chips) :
            chips[k].inside <=>
                \A p \in FourCorners(chips[k]) : WithinUsableRadius(p[1], p[2])

\* a grid of flat angle 0 with inside and outside chips, an inside chip
\* with a corner left of x = -waferRadius on the x-axis, and an inside chip
\* that the same parameters with a flat of 30 degrees put outside
C22_Witness ==
    /\ Generated /\ A0 = 0
    /\ \E k \in 1..Len(chips) : ~chips[k].inside
    /\ \E k \in InsideChips : chips[k].x < -D0 /\ chips[k].y = 0
    /\ \E k \in InsideChips :
          ~generateChipGrid([gridFrom.wafer EXCEPT !.flatAngle = Num(30)],
                            gridFrom.chip.width, gridFrom.chip.height)[k].inside

\* the chip at index k is in the first or last row or column of the grid
OnGridBorder(k) ==
    \/ (k - 1) \div Cols0 \in {0, Rows0 - 1}
    \/ (k - 1) % Cols0 \in {0, Cols0 - 1}

\* C23: with positive diameter and chip dimensions and excludedRadius >= 0
\* the grid reaches at least one chip width beyond the wafer diameter on the
\* left and on the right and one chip height below and above it, and every
\* chip of the first and last row and column is outside
C23_GridExtentNeverClips ==
    (GeneratedValid /\ E0 >= 0) =>
        /\ chips[1].x <= -D0 - 2 * W0
        /\ chips[1].y <= -D0 - 2 * H0
        /\ chips[Len(chips)].x + 2 * W0 >= D0 + 2 * W0
        /\ chips[Len(chips)].y + 2 * H0 >= D0 + 2 * H0
        /\ \A k \in 1..Len(chips) : OnGridBorder(k) => ~chips[k].inside

\* a grid without excluded radius whose extent is exactly one chip beyond
\* the diameter on every side, with inside chips
C23_Witness ==
    /\ GeneratedValid /\ E0 = 0
    /\ InsideChips # {}
    /\ chips[1].x = -D0 - 2 * W0
    /\ chips[1].y = -D0 - 2 * H0

\* C24: once the first grid is generated, whatever handlers have run, the
\* id, x, y, width, height, inside and number of the chips of the collection
\* are those of generateChipGrid on the waferParams and chipParams that the
\* state holds
C24_GeometryFollowsParams ==
    gridFrom.installed =>
        Geometry(chips) =
            Geometry(generateChipGrid(waferParams, chipParams.width,
                                      chipParams.height))

\* C25: a mousemove changes a chip only while the button is held after a
\* mousedown on a chip
C25_PaintOnlyWhileHeld ==
    [][((\E t \in DragTargets : HandleDragMove(t)) /\ chips' # chips)
          => pressedOnChip]_vars

\* a click on the drawn chip at index t, or a mousemove over it during a
\* drag: the edits of handleChipClick and handleDragMove
EditStep(t) == ClickOnChip(t) \/ (isDragging /\ HandleDragMove(t))

\* what C26 says of an edit that names the id of the chip at index t
EditPost(t) ==
    /\ Len(chips') = Len(chips)
    /\ Geometry(chips') = Geometry(chips)
    /\ \A k \in 1..Len(chips) :
          IF chips[k].id = chips[t].id
          THEN /\ chips'[k].color = currentColor
               /\ chips'[k].label = currentLabel
               /\ DOMAIN chips'[k] = DOMAIN chips[k]
          ELSE chips'[k] = chips[k]

\* C26: a click or drag edit keeps the number of chips and the id, x, y,
\* width, height, inside and number of every chip; it sets the color and
\* the label of the one chip whose id it names to the current label
\* parameters and leaves every other chip as it was
C26_EditFrame ==
    [][\A t \in DragTargets \ {0} : EditStep(t) => EditPost(t)]_vars

\* a drag is under way on a collection with outside chips, a chip that
\* carries the current label parameters and a chip edited with others
C26_Witness ==
    /\ isDragging /\ buttonDown
    /\ \E k \in 1..Len(chips) : ~chips[k].inside
    /\ \E j, k \in InsideChips :
          /\ chips[j].color = currentColor /\ chips[j].label = currentLabel
          /\ chips[j].color # DefaultColor
          /\ chips[k].color # DefaultColor
          /\ chips[k].color # currentColor

\* the number the first pass gives the chip at index k: the counter starts
\* at 1 and counts the inside chips pushed before it
FirstPassNumber(k) ==
    1 + Cardinality({j \in InsideChips : chips[j].id < chips[k].id})

\* C27: for positive chip dimensions the numbers after the second pass are
\* those of the first pass, and among inside chips the order of the ids is
\* the order of the numbers
C27_SortKeepsFirstPassNumbers ==
    (Generated /\ W0 > 0 /\ H0 > 0) =>
        /\ \A k \in InsideChips : chips[k].number = FirstPassNumber(k)
        /\ \A j, k \in InsideChips :
              chips[j].id < chips[k].id <=> chips[j].number < chips[k].number

\* a grid of positive chip dimensions with inside chips in several rows and
\* columns and an outside chip between two inside chips in the scan order
C27_Witness ==
    /\ Generated /\ W0 > 0 /\ H0 > 0
    /\ \E j, k \in InsideChips : chips[j].y < chips[k].y /\ chips[j].x > chips[k].x
    /\ \E i, k \in InsideChips : \E j \in 1..Len(chips) :
          i < j /\ j < k /\ ~chips[j].inside

\* the indices of the chips at (x, y), doubled
ChipsAt(x, y) == {j \in 1..Len(chips) : chips[j].x = x /\ chips[j].y = y}

\* C28, in exact arithmetic: every chip at (x, y) has a chip at
\* (x, -y - height) with the same inside value, for any flat angle; with
\* flatAngle = 0 it has a chip at (-x - width, y) with the same inside value
\* as well
C28_MirrorSymmetry ==
    Generated =>
        \A k \in 1..Len(chips) :
            /\ \E j \in ChipsAt(chips[k].x, -chips[k].y - 2 * chips[k].height) :
                  chips[j].inside = chips[k].inside
            /\ A0 = 0 =>
                  \E j \in ChipsAt(-chips[k].x - 2 * chips[k].width, chips[k].y) :
                      chips[j].inside = chips[k].inside

\* a grid with a flat, inside chips above and below the x-axis, and a chip
\* above the axis that the flat alone excludes, as it does its mirror image
C28_Witness ==
    /\ Generated /\ A0 > 0
    /\ \E j, k \in InsideChips : chips[j].y >= 0 /\ chips[k].y + 2 * chips[k].height <= 0
    /\ \E k \in 1..Len(chips) :
          /\ chips[k].y >= 0 /\ ~chips[k].inside
          /\ \A p \in FourCorners(chips[k]) : WithinUsableRadius(p[1], p[2])
          /\ \E j \in ChipsAt(chips[k].x, -chips[k].y - 2 * chips[k].height) :
                j # k /\ ~chips[j].inside

\* a parameter-change event with an input that does not parse
IgnoredEvent ==
    \/ \E d \in Parsed(UiDiameters), a \in Parsed(UiFlatAngles),
          e \in Parsed(UiExcludedRadii) :
          /\ NaN \in {d, a, e}
          /\ HandleWaferParamsChange(d, a, e)
    \/ \E w \in Parsed(UiWidths), h \in Parsed(UiHeights) :
          /\ NaN \in {w, h}
          /\ HandleChipParamsChange(w, h)

\* C30: a parameter-change event with a NaN diameter, flat angle, excluded
\* radius, chip width or chip height leaves waferParams, chipParams and the
\* chip collection with its edits as they were, and generates no grid
C30_NaNInputIgnored ==
    [][IgnoredEvent =>
          /\ waferParams' = waferParams /\ chipParams' = chipParams
          /\ chips' = chips /\ gridFrom' = gridFrom]_vars

\* an event was ignored on a collection with an edited chip, generated
\* from parameters that are not the defaults
C30_Witness ==
    /\ inputIgnored
    /\ gridFrom.wafer.diameter # Num(DefaultDiameter)
    /\ waferParams = gridFrom.wafer /\ chipParams = gridFrom.chip
    /\ \E k \in InsideChips : chips[k].color # DefaultColor

\* the columns and rows of the grid in doubles
ColsDouble == numColsDouble(Millimetres(D0), Millimetres(W0))
RowsDouble == numColsDouble(Millimetres(D0), Millimetres(H0))

\* the index of the chip in the row mirrored in the x-axis, same column: in
\* exact arithmetic the chip at (x, -y - height)
MirrorDown(k) ==
    (RowsDouble - 1 - ((k - 1) \div ColsDouble)) * ColsDouble
        + ((k - 1) % ColsDouble) + 1

\* the index of the chip in the column mirrored in the y-axis, same row: in
\* exact arithmetic the chip at (-x - width, y)
MirrorAcross(k) ==
    ((k - 1) \div ColsDouble) * ColsDouble
        + (ColsDouble - 1 - ((k - 1) % ColsDouble)) + 1

\* C28, in doubles: a chip and the chip of the mirrored row have the same
\* inside value, for any flat angle; with flatAngle = 0 a chip and the chip
\* of the mirrored column have the same inside value as well
C28_MirrorSymmetryInDoubles ==
    (Generated /\ Len(chips) = RowsDouble * ColsDouble) =>
        \A k \in 1..Len(chips) :
            /\ chips[MirrorDown(k)].inside = chips[k].inside
            /\ A0 = 0 => chips[MirrorAcross(k)].inside = chips[k].inside

\* C29, in doubles: after the import of a document that exportToJson wrote
\* from the current grid, chips of at least 0.1 x 0.1 mm, the saved chip
\* that find returns for an inside chip is the one with the id of the chip
C29_MatchesOwnSavedChip ==
    (Generated /\ loadResult = "ok" /\ W0 >= 2 /\ H0 >= 2) =>
        \A k \in 1..Len(chips) :
            chips[k].inside =>
                \E m \in {MatchIndexDouble(lastJson.chips.items, chips[k])} :
                    m # 0 /\ lastJson.chips.items[m].id = chips[k].id

====
